---- MODULE Spec2Model ----
(***************************************************************************)
(* Model of the synchrophasor PMU endpoint of synchrophasor/pmu.py: the    *)
(* Pmu server object (configuration frames, client registry, broadcast),   *)
(* the acceptor, and the per-connection worker Pmu.pdc_handler with its    *)
(* read / command / send loop over a byte stream.                          *)
(*                                                                         *)
(* Frames travel as sequences of bytes (naturals below 256).  The frame    *)
(* codec (synchrophasor/frame.py) is not part of the sources at hand; the  *)
(* envelope used here follows the wire description of the specification,   *)
(* shortened to <<sync, type, sizeHi, sizeLo, payload..., check>>, with    *)
(* the frame size at bytes [2:4] exactly where pdc_handler reads it.       *)
(***************************************************************************)
EXTENDS Integers, Sequences, FiniteSets, TLC

\* -------------------------------------------------------------- bounds
MaxSessions == 2      \* connections the server has room for
MaxPeerMsgs == 2      \* messages a peer puts on the wire
MaxSends == 2         \* frames the producer broadcasts
MaxCfgOps == 2        \* configuration calls made on the server
MaxRequests == 1      \* requests a peer makes while the configuration changes
QueueCapacity == 1    \* the capacity N the bounded-queue claim speaks of
MaxStarts == 2        \* simulation threads started for one PMU name

\* ---------------------------------------------------- program constants
buffer_size == 2048   \* Pmu.__init__ default

Sessions == 1..MaxSessions

Min(a, b) == IF a < b THEN a ELSE b

Last(q) == q[Len(q)]

Take(q, n) == SubSeq(q, 1, n)

Drop(q, n) == SubSeq(q, n + 1, Len(q))

\* ---------------------------------------------------------------- codec
Commands == {"start", "stop", "header", "cfg1", "cfg2", "cfg3", "extended"}

CmdCode(c) ==
    CASE c = "stop" -> 1
      [] c = "start" -> 2
      [] c = "header" -> 3
      [] c = "cfg1" -> 4
      [] c = "cfg2" -> 5
      [] c = "cfg3" -> 6
      [] c = "extended" -> 8

RECURSIVE ByteSum(_)
ByteSum(bs) == IF bs = <<>> THEN 0 ELSE Head(bs) + ByteSum(Tail(bs))

\* The trailing integrity check over all preceding bytes.
Check(bs) == ByteSum(bs) % 256

\* encode: size field and check are computed from the final byte sequence.
Encode(type, payload) ==
    LET size == 4 + Len(payload) + 1
        body == <<170, type, size \div 256, size % 256>> \o payload
    IN  Append(body, Check(body))

CommandBytes(c) == Encode(65, <<CmdCode(c)>>)

\* A well-formed frame that is no command (a data frame sent by the peer).
DataBytes == Encode(1, <<0>>)

\* Scenario 4: ten bytes whose size field says 4.
OverLong == <<170, 65, 0, 4, 0, 0, 0, 0, 0, 0>>

\* Right size, wrong integrity check.
BadCheck ==
    LET f == CommandBytes("start")
    IN  [f EXCEPT ![Len(f)] = (f[Len(f)] + 1) % 256]

\* The first bytes of a frame: the size field is there, the rest is not.
Partial == Take(CommandBytes("start"), 5)

\* int.from_bytes(received_data[2:4], byteorder="big", signed=False)
FrameSize(received_data) == received_data[3] * 256 + received_data[4]

\* CommonFrame.convert2frame: the decoded frame, or a FrameError.
convert2frame(bs) ==
    IF Len(bs) < 6 \/ FrameSize(bs) # Len(bs)
       \/ Check(Take(bs, Len(bs) - 1)) # Last(bs)
    THEN [error |-> TRUE, cls |-> "FrameError", command |-> "None"]
    ELSE IF bs[2] = 65 /\ \E c \in Commands : CmdCode(c) = bs[5]
    THEN [error |-> FALSE, cls |-> "CommandFrame",
          command |-> CHOOSE c \in Commands : CmdCode(c) = bs[5]]
    ELSE IF bs[2] = 1
    THEN [error |-> FALSE, cls |-> "DataFrame", command |-> "None"]
    ELSE [error |-> TRUE, cls |-> "FrameError", command |-> "None"]

\* ------------------------------------------------------- frame values
\* Configuration frame objects: "sample" is ieee_cfg2_sample, built by
\* Pmu.__init__; "u1", "u2", "u3" are frames a caller builds and hands to
\* set_configuration (main.py builds a ConfigFrame2 with its own station
\* name and channel lists).
Objs == {"sample", "u1", "u2", "u3"}

Station(o) == IF o = "sample" THEN "Station A" ELSE "Station B"

\* Channel counts, channel names and conversion factors of a frame object.
Channels(o) == IF o = "sample" THEN "4ph/3an/1dg" ELSE "2ph/1an/1dg"

Ids == {7734, 780}

Rates == {30, 5}

Formats == {"FFTF", "TTTT"}

\* time is the timestamp of a frame: 0 as built, and s once the worker of
\* session s has put a reading of its clock into it (two readings taken by
\* different workers are different times).
NoFrame ==
    [cls |-> "None", id_code |-> 0, station |-> "", channels |-> "",
     data_rate |-> 0, data_format |-> "", seq |-> 0, text |-> "", time |-> 0]

HeaderFrame(pmu_id, text) ==
    [NoFrame EXCEPT !.cls = "HeaderFrame", !.id_code = pmu_id, !.text = text]

VARIABLES
    cfg1, cfg2,        \* Pmu.cfg1, Pmu.cfg2: references to frame objects
    cfg3,              \* Pmu.cfg3: "None" or what set_configuration stored
    header,            \* Pmu.header
    heap,              \* the mutable fields of the frame objects
    socket,            \* Pmu.socket: "None" or "listening"
    stopped,           \* Pmu._stopped
    listener,          \* Pmu.listener: where the acceptor thread stands
    stopping,          \* a thread is inside Pmu.stop
    raised,            \* the PmuError the latest call on the server raised
    clients,           \* Pmu.clients: the worker processes, in accept order
    client_buffers,    \* Pmu.client_buffers: the queues, in accept order
    nsends,            \* producer broadcasts made so far
    npeer,             \* messages the peers have sent so far
    ncfgops,           \* configuration calls made so far
    handler,           \* per session: the locals of pdc_handler
    args,              \* per session: the frames the worker was started with
    buffer,            \* per session: its multiprocessing.Queue
    conn,              \* per session: the connection and its peer
    log,               \* per session: what was sent, decoded, and how reads ended
    pmu_threads,       \* main.py: per PMU name, the simulation thread registered
    pmu_instances,     \* main.py: per PMU name, the PMUSimulator registered
    simulator,         \* main.py: per thread, where PMUSimulator.start stands
    pmu_configs,       \* PMUSimulatorUI.pmu_configs: the stored profiles
    messagebox         \* the dialog the UI showed last

\* The state of the simulator front end (main.py).
mainVars == <<pmu_threads, pmu_instances, simulator, pmu_configs, messagebox>>

\* The names of the profiles of the device list.
Names == {"PMU1", "PMU2", "PMU3"}

ProfileIds == {780, 781}

Ports == {4712, 4713}

\* No entry under a name, in pmu_configs or in an import file.
NoProfile == [pmu_id |-> 0, port |-> 0, data_rate |-> 0]

\* A profile, followed by its identity, its port and one more setting.
Profiles == [pmu_id : ProfileIds, port : Ports, data_rate : {5, 30}]

\* A PMUSimulator and its thread: pc is where start_simulation /
\* PMUSimulator.start stands, pmu is the state of self.pmu, port the port
\* of the config it was started with.
NoSimulator == [pc |-> "unborn", pmu |-> "None", port |-> 0]

serverVars == <<cfg1, cfg2, cfg3, header, heap, socket, stopped, listener,
                stopping, raised, clients, client_buffers, nsends, npeer, mainVars,
                ncfgops>>

sessionVars == <<handler, args, buffer, conn, log>>

vars == <<serverVars, sessionVars>>

\* The value of a configuration frame object under heap hp, as a worker or
\* a queue gets it.
ValueIn(hp, o) ==
    [cls |-> hp[o].cls, id_code |-> hp[o].id_code, station |-> Station(o),
     channels |-> Channels(o), data_rate |-> hp[o].data_rate,
     data_format |-> hp[o].data_format, seq |-> 0, text |-> "", time |-> 0]

ConfigValue(o) == ValueIn(heap, o)

\* DataFrame(pmu_id, stat, phasors, ..., cfg): the n-th measurement.
DataFrame(pmu_id, cfg, n) ==
    [cls |-> "DataFrame", id_code |-> pmu_id, station |-> Station(cfg),
     channels |-> Channels(cfg), data_rate |-> heap[cfg].data_rate,
     data_format |-> heap[cfg].data_format, seq |-> n, text |-> "", time |-> 0]

NoHandler ==
    [pc |-> "free", sending_measurements_enabled |-> FALSE, command |-> "None",
     received_data |-> <<>>, data |-> NoFrame]

NoArgs == [cfg1 |-> NoFrame, cfg2 |-> NoFrame, cfg3 |-> "None", header |-> NoFrame]

NoWrite == [via |-> "none", frame |-> NoFrame]

\* peer: what the peer has done to the connection; inb: the bytes it sent
\* that the worker has not read; out: the worker's latest write.
NoConn == [peer |-> "open", inb |-> <<>>, out |-> NoWrite]

\* Observations kept for the properties: how a read ended, whether a
\* complete command frame was thrown away with the bytes around it, and
\* how many frames had been broadcast when the session closed (-1 before).
NoLog == [read_end |-> "none", lost |-> "none", closed_at |-> -1]

\* Pmu.__init__ with its default arguments: cfg1 and cfg2 are both the
\* sample object, whose class the constructor has set to ConfigFrame1.
Init ==
    /\ cfg1 = "sample"
    /\ cfg2 = "sample"
    /\ cfg3 = "None"
    /\ header = HeaderFrame(7734, "Hi! I am tinyPMU!")
    /\ heap = [o \in Objs |->
                [cls |-> CASE o = "sample" -> "ConfigFrame1"
                           [] o = "u1" -> "ConfigFrame1"
                           [] o = "u2" -> "ConfigFrame2"
                           [] o = "u3" -> "ConfigFrame3",
                 id_code |-> IF o = "sample" THEN 7734 ELSE 780,
                 data_rate |-> IF o = "sample" THEN 30 ELSE 5,
                 data_format |-> "FFTF"]]
    /\ socket = "None"
    /\ stopped = FALSE
    /\ listener = "None"
    /\ stopping = FALSE
    /\ raised = "None"
    /\ clients = <<>>
    /\ client_buffers = <<>>
    /\ nsends = 0
    /\ npeer = 0
    /\ ncfgops = 0
    /\ handler = [s \in Sessions |-> NoHandler]
    /\ args = [s \in Sessions |-> NoArgs]
    /\ buffer = [s \in Sessions |-> <<>>]
    /\ conn = [s \in Sessions |-> NoConn]
    /\ log = [s \in Sessions |-> NoLog]
    /\ pmu_threads = [n \in Names |-> 0]
    /\ pmu_instances = [n \in Names |-> 0]
    /\ simulator = [n \in Names |-> [k \in 1..MaxStarts |-> NoSimulator]]
    /\ pmu_configs = [n \in Names |->
                        CASE n = "PMU1" ->
                               [pmu_id |-> 780, port |-> 4712, data_rate |-> 5]
                          [] n = "PMU2" ->
                               [pmu_id |-> 781, port |-> 4713, data_rate |-> 5]
                          [] OTHER -> NoProfile]
    /\ messagebox = "none"

\* ------------------------------------------------------------- server
\* Queue.put: multiprocessing.Queue() is built without a maxsize; put
\* appends and never waits.
put(q, item) == Append(q, item)

\* A get that hands out the newest item.
get_newest(q) == Last(q)

\* Queue.get: the oldest item.
get(q) == Head(q)

\* A loop that a put on the queue of a closed session ends with an error.
BroadcastUntilClosed(frame) ==
    [s \in Sessions |->
        IF /\ \E i \in 1..Len(client_buffers) : client_buffers[i] = s
           /\ \A u \in 1..s : handler[u].pc # "closed"
        THEN put(buffer[s], frame) ELSE buffer[s]]

\* A loop that stops after the first registered queue.
BroadcastToFirst(frame) ==
    [s \in Sessions |->
        IF client_buffers # <<>> /\ client_buffers[1] = s
        THEN put(buffer[s], frame) ELSE buffer[s]]

\* The loop of send / send_data: every registered queue gets the frame.
Broadcast(frame) ==
    [s \in Sessions |->
        IF \E i \in 1..Len(client_buffers) : client_buffers[i] = s
        THEN put(buffer[s], frame) ELSE buffer[s]]

\* if not self.cfg1 and not self.cfg2 and not self.cfg3
no_configuration == cfg1 = "None" /\ cfg2 = "None" /\ cfg3 = "None"

\* Pmu.run, called on a server that is not listening and whose earlier
\* acceptor thread, if any, has ended: it raises without a configuration,
\* and else listens and starts the acceptor thread.
Run ==
    /\ socket = "None"
    /\ listener \in {"None", "done"}
    /\ ~stopping
    /\ IF no_configuration
       THEN /\ raised' = "Cannot run PMU without configuration."
            /\ UNCHANGED <<stopped, socket, listener>>
       ELSE /\ raised' = "None"
            /\ stopped' = FALSE
            /\ socket' = "listening"
            /\ listener' = "accept"
    /\ UNCHANGED <<cfg1, cfg2, cfg3, header, heap, stopping, clients,
                   client_buffers, nsends, npeer, mainVars, ncfgops, sessionVars>>

\* Pmu.acceptor, one turn of its loop: a connection is accepted, a queue
\* is registered and a worker is started with the server's frames as they
\* are now (a process gets its arguments by value).
Accept(s) ==
    /\ socket = "listening"
    /\ listener = "accept"
    /\ ~stopped
    /\ s = Len(client_buffers) + 1
    /\ handler[s].pc = "free"
    /\ client_buffers' = Append(client_buffers, s)
    /\ clients' = Append(clients, s)
    /\ args' = [args EXCEPT ![s] =
                  [cfg1 |-> ConfigValue(cfg1), cfg2 |-> ConfigValue(cfg2),
                   cfg3 |-> cfg3, header |-> header]]
    /\ handler' = [handler EXCEPT ![s] = [NoHandler EXCEPT !.pc = "poll"]]
    /\ UNCHANGED <<cfg1, cfg2, cfg3, header, heap, socket, stopped, listener,
                   stopping, raised, nsends, npeer, mainVars, ncfgops, buffer, conn, log>>

\* What a caller may hand to send: a frame, raw bytes, or something else
\* (a str, say).
SendInputs == {"DataFrame", "bytes", "str"}

\* The n-th item handed to send, as a queue holds it.
Item(frame, n) ==
    IF frame = "DataFrame" THEN DataFrame(heap[cfg2].id_code, cfg2, n)
    ELSE [NoFrame EXCEPT !.cls = frame, !.seq = n]

\* A send that takes whatever it is handed.
nothing_is_invalid(frame) == FALSE

\* not isinstance(frame, CommonFrame) and not isinstance(frame, bytes)
invalid_frame(frame) == frame \notin {"DataFrame", "bytes"}

\* Pmu.send
send(frame) ==
    IF invalid_frame(frame)
    THEN /\ raised' = "Invalid frame type."
         /\ UNCHANGED <<cfg1, cfg2, cfg3, header, heap, socket, stopped,
                        listener, stopping, clients, client_buffers, nsends,
                        npeer, mainVars, ncfgops, sessionVars>>
    ELSE /\ nsends < MaxSends
         /\ nsends' = nsends + 1
         /\ buffer' = Broadcast(Item(frame, nsends + 1))
         /\ raised' = "None"
         /\ UNCHANGED <<cfg1, cfg2, cfg3, header, heap, socket, stopped,
                        listener, stopping, clients, client_buffers, npeer, mainVars,
                        ncfgops, handler, args, conn, log>>

\* Pmu.send with a frame, as the loop of PMUSimulator.start calls it.
Send == send("DataFrame")

\* Pmu.send_data: builds the DataFrame against cfg2 and enqueues it likewise.
SendData ==
    /\ nsends < MaxSends
    /\ nsends' = nsends + 1
    /\ buffer' = Broadcast(DataFrame(heap[cfg2].id_code, cfg2, nsends + 1))
    /\ raised' = "None"
    /\ UNCHANGED <<cfg1, cfg2, cfg3, header, heap, socket, stopped, listener,
                   stopping, clients, client_buffers, npeer, mainVars, ncfgops, handler,
                   args, conn, log>>

\* ----------------------------------------- the acceptor, step by step
\* The acceptor thread stands in accept ("accept"), has a connection in
\* hand ("accepted"), has started its worker ("started"), or has ended
\* ("done").  The session it is setting up is the next free one.
\* conn, address = self.socket.accept() returns.  Closing the socket from
\* another thread need not wake a thread that is already inside accept: a
\* connection that arrives afterwards may still be handed to it.
AcceptReturn ==
    /\ listener = "accept"
    /\ Len(client_buffers) < MaxSessions
    /\ handler[Len(client_buffers) + 1].pc = "free"
    /\ listener' = "accepted"
    /\ UNCHANGED <<cfg1, cfg2, cfg3, header, heap, socket, stopped, stopping,
                   raised, clients, client_buffers, nsends, npeer, mainVars, ncfgops,
                   sessionVars>>

\* accept raises OSError on the closed socket; with _stopped set the loop
\* breaks and the thread ends.
AcceptorExit ==
    /\ listener = "accept"
    /\ stopped
    /\ socket = "None"
    /\ listener' = "done"
    /\ UNCHANGED <<cfg1, cfg2, cfg3, header, heap, socket, stopped, stopping,
                   raised, clients, client_buffers, nsends, npeer, mainVars, ncfgops,
                   sessionVars>>

\* buffer = Queue(); client_buffers.append(buffer); Process(...).start():
\* nothing on this path looks at _stopped.
StartWorker ==
    /\ listener = "accepted"
    /\ LET s == Len(client_buffers) + 1
       IN  /\ client_buffers' = Append(client_buffers, s)
           /\ args' = [args EXCEPT ![s] =
                         [cfg1 |-> ConfigValue(cfg1), cfg2 |-> ConfigValue(cfg2),
                          cfg3 |-> cfg3, header |-> header]]
           /\ handler' = [handler EXCEPT ![s] = [NoHandler EXCEPT !.pc = "poll"]]
    /\ listener' = "started"
    /\ UNCHANGED <<cfg1, cfg2, cfg3, header, heap, socket, stopped, stopping,
                   raised, clients, nsends, npeer, mainVars, ncfgops, buffer, conn, log>>

\* self.clients.append(process), then the loop test: while not _stopped.
Register ==
    /\ listener = "started"
    /\ clients' = Append(clients, Len(client_buffers))
    /\ listener' = IF stopped THEN "done" ELSE "accept"
    /\ UNCHANGED <<cfg1, cfg2, cfg3, header, heap, socket, stopped, stopping,
                   raised, client_buffers, nsends, npeer, mainVars, ncfgops, sessionVars>>

\* ------------------------------------------------------------- stop
\* Pmu.stop up to the join: the flag is set, the socket is closed and
\* forgotten.
StopBegin ==
    /\ ~stopping
    /\ stopping' = TRUE
    /\ stopped' = TRUE
    /\ socket' = "None"
    /\ UNCHANGED <<cfg1, cfg2, cfg3, header, heap, listener, raised, clients,
                   client_buffers, nsends, npeer, mainVars, ncfgops, sessionVars>>

\* A stop that clears the registry and terminates no one.
terminate_no_one(h) == h

\* Process.terminate: a worker that runs is killed where it stands (its
\* finally clause does not run); one that has ended is left as it is.
terminate(h) ==
    IF h.pc \in {"free", "closed"} THEN h ELSE [h EXCEPT !.pc = "terminated"]

\* Pmu.stop from the join on: listener.join(timeout=1) has returned,
\* because the acceptor ended or because the second was over; every
\* process in self.clients is terminated and the list is emptied.
StopEnd ==
    /\ stopping
    /\ handler' = [s \in Sessions |->
                     IF \E i \in 1..Len(clients) : clients[i] = s
                     THEN terminate(handler[s]) ELSE handler[s]]
    /\ clients' = <<>>
    /\ stopping' = FALSE
    /\ UNCHANGED <<cfg1, cfg2, cfg3, header, heap, socket, stopped, listener,
                   raised, client_buffers, nsends, npeer, mainVars, ncfgops, args,
                   buffer, conn, log>>

\* ------------------------------------------------------ configuration
ConfigInputs == {"None", "u1", "u2", "u3", "other"}

\* type(config), for what a caller hands to set_configuration.
TypeOf(config) == IF config \in Objs THEN heap[config].cls ELSE config

\* Pmu.set_configuration
SetConfiguration(config) ==
    /\ ncfgops < MaxCfgOps
    /\ ncfgops' = ncfgops + 1
    /\ CASE config = "None" ->
              /\ cfg1' = "sample"
              /\ heap' = [heap EXCEPT !["sample"].cls = "ConfigFrame1"]
              /\ cfg2' = "sample"
              /\ cfg3' = "None"
         [] TypeOf(config) = "ConfigFrame1" ->
              /\ cfg1' = config
              /\ UNCHANGED <<cfg2, cfg3, heap>>
         [] TypeOf(config) = "ConfigFrame2" ->
              /\ cfg2' = config
              /\ IF cfg1 = "None"
                 THEN /\ cfg1' = config
                      /\ heap' = [heap EXCEPT ![config].cls = "ConfigFrame1"]
                 ELSE UNCHANGED <<cfg1, heap>>
              /\ UNCHANGED cfg3
         [] TypeOf(config) = "ConfigFrame3" ->
              /\ cfg3' = "ConfigFrame3"
              /\ UNCHANGED <<cfg1, cfg2, heap>>
         [] OTHER ->
              UNCHANGED <<cfg1, cfg2, cfg3, heap>>
    /\ raised' = IF config = "other" THEN "Incorrect configuration!" ELSE "None"
    /\ UNCHANGED <<header, socket, stopped, listener, stopping, clients,
                   client_buffers, nsends, npeer, mainVars, sessionVars>>

\* What a caller may hand to set_header: nothing, a text, a HeaderFrame,
\* or something else (a number, say).
HeaderInputs == {"None", "str", "HeaderFrame", "int"}

\* A set_header that makes a header of whatever it is handed.
SetHeaderUnchecked(h) ==
    /\ raised' = "None"
    /\ header' = IF h = "None" THEN header
                 ELSE HeaderFrame(heap[cfg2].id_code, "a text")
    /\ UNCHANGED <<cfg1, cfg2, cfg3, heap, socket, stopped, listener, stopping,
                   clients, client_buffers, nsends, npeer, mainVars, ncfgops,
                   sessionVars>>

\* Pmu.set_header
SetHeader(h) ==
    /\ CASE h = "None" ->
              raised' = "None" /\ UNCHANGED header
         [] h = "HeaderFrame" ->
              /\ raised' = "None"
              /\ header' = HeaderFrame(780, "a HeaderFrame")
         [] h = "str" ->
              /\ raised' = "None"
              /\ header' = HeaderFrame(heap[cfg2].id_code, "a text")
         [] OTHER ->
              raised' = "Incorrect header setup!" /\ UNCHANGED header
    /\ UNCHANGED <<cfg1, cfg2, cfg3, heap, socket, stopped, listener, stopping,
                   clients, client_buffers, nsends, npeer, mainVars, ncfgops,
                   sessionVars>>

\* A setter of both configuration frames that then pushes cfg2: hp is the
\* heap the setter leaves.
SetAndPush(hp) ==
    /\ ncfgops < MaxCfgOps
    /\ ncfgops' = ncfgops + 1
    /\ heap' = hp
    /\ buffer' = Broadcast(ValueIn(hp, cfg2))
    /\ raised' = "None"
    /\ UNCHANGED <<cfg1, cfg2, cfg3, header, socket, stopped, listener,
                   stopping, clients,
                   client_buffers, nsends, npeer, mainVars, handler, args, conn, log>>

\* A set_id that leaves cfg1 alone.
SetIdOfCfg2Only(pmu_id) ==
    SetAndPush([heap EXCEPT ![cfg2].id_code = pmu_id])

\* Pmu.set_id
SetId(pmu_id) ==
    SetAndPush([heap EXCEPT ![cfg1].id_code = pmu_id, ![cfg2].id_code = pmu_id])

\* Pmu.set_data_rate
SetDataRate(data_rate) ==
    SetAndPush([heap EXCEPT ![cfg1].data_rate = data_rate,
                            ![cfg2].data_rate = data_rate])

\* Pmu.set_data_format
SetDataFormat(data_format) ==
    SetAndPush([heap EXCEPT ![cfg1].data_format = data_format,
                            ![cfg2].data_format = data_format])

\* --------------------------------------------------------------- peers
\* What a peer may put on the wire, by name.
Malformed == {"overlong", "badcheck", "partial"}

PeerMsgs == Commands \cup Malformed \cup {"data"}

Requests == {"header", "cfg1", "cfg2", "cfg3"}

Bytes(m) ==
    CASE m \in Commands -> CommandBytes(m)
      [] m = "data" -> DataBytes
      [] m = "overlong" -> OverLong
      [] m = "badcheck" -> BadCheck
      [] m = "partial" -> Partial

Live(s) == handler[s].pc \notin {"free", "closed", "terminated"}

\* The peer writes one message.  conn[s].inb holds the bytes sent and not
\* yet read; a recv that returns fewer of them than are there stands for
\* the rest not having arrived yet.
PeerSend(s, m) ==
    /\ Live(s)
    /\ conn[s].peer = "open"
    /\ npeer < MaxPeerMsgs
    /\ npeer' = npeer + 1
    /\ conn' = [conn EXCEPT ![s].inb = @ \o Bytes(m)]
    /\ UNCHANGED <<cfg1, cfg2, cfg3, header, heap, socket, stopped, listener,
                   stopping, raised, clients, client_buffers, nsends, ncfgops,
                   mainVars, handler, args, buffer, log>>

\* The peer closes the connection: end-of-stream follows the bytes sent.
PeerClose(s) ==
    /\ Live(s)
    /\ conn[s].peer = "open"
    /\ conn' = [conn EXCEPT ![s].peer = "eof"]
    /\ UNCHANGED <<serverVars, handler, args, buffer, log>>

\* The connection is reset: whatever was under way is lost.
PeerReset(s) ==
    /\ Live(s)
    /\ conn[s].peer = "open"
    /\ conn' = [conn EXCEPT ![s].peer = "reset", ![s].inb = <<>>]
    /\ UNCHANGED <<serverVars, handler, args, buffer, log>>

\* connection.recv(n) as the socket stands: bytes, end-of-stream (b""),
\* an exception, or a wait.
RecvKind(s) ==
    IF conn[s].peer = "reset" THEN "raise"
    ELSE IF conn[s].inb # <<>> THEN "bytes"
    ELSE IF conn[s].peer = "eof" THEN "eos"
    ELSE "wait"

\* The lengths recv(limit) may return when there are bytes: any part of
\* what was sent, up to limit (0 only stands in when there are none).
Chunks(s, limit) ==
    IF conn[s].inb = <<>> THEN {0} ELSE 1..Min(limit, Len(conn[s].inb))

\* connection.sendall as the socket stands: to a peer that has closed, a
\* write may still be taken or may already fail.
SendallOutcomes(s) ==
    IF conn[s].peer = "open" THEN {"ok"}
    ELSE IF conn[s].peer = "eof" THEN {"ok", "raise"}
    ELSE {"raise"}

\* ------------------------------------------------------- pdc_handler
\* One step of the worker of session s leaves it with locals h, queue b,
\* connection c and log l.
SessionStep(s, h, b, c, l) ==
    /\ handler' = [handler EXCEPT ![s] = h]
    /\ buffer' = [buffer EXCEPT ![s] = b]
    /\ conn' = [conn EXCEPT ![s] = c]
    /\ log' = [log EXCEPT ![s] =
                 IF h.pc = "closed" THEN [l EXCEPT !.closed_at = nsends] ELSE l]
    /\ UNCHANGED <<serverVars, args>>

\* A worker that swallows the exception and goes on with its loop.
CarryOn(h) == [h EXCEPT !.pc = "poll"]

\* except Exception / finally: connection.close()
Close(h) == [h EXCEPT !.pc = "closed"]

\* A worker whose "stop" branch leaves the flag alone.
sending_after_without_stop(command, enabled) ==
    IF command = "start" THEN TRUE ELSE enabled

\* A worker that takes every command it does not know for "stop".
sending_after_unknown_stops(command, enabled) ==
    IF command = "start" THEN TRUE
    ELSE IF command \notin {"None", "header", "cfg1", "cfg2", "cfg3"} THEN FALSE
    ELSE enabled

\* The flag after a command: "start" and "stop" set it, nothing else does.
sending_after(command, enabled) ==
    IF command = "start" THEN TRUE
    ELSE IF command = "stop" THEN FALSE
    ELSE enabled

\* The frame a command is answered with, <<>> when nothing is written.
reply_to(a, command) ==
    CASE command = "header" -> <<a.header>>
      [] command = "cfg1" -> <<a.cfg1>>
      [] command = "cfg2" -> <<a.cfg2>>
      [] OTHER -> <<>>

\* cfg3 holds either None or the class ConfigFrame3 itself (what
\* set_configuration stores): set_time / convert2bytes on the class raise.
command_raises(a, command) == command = "cfg3" /\ a.cfg3 # "None"

\* if set_timestamp: frame.set_time(), in the worker of session s; raw
\* bytes carry no time.
stamp(frame, s) ==
    IF frame.cls = "bytes" THEN frame ELSE [frame EXCEPT !.time = s]

\* A loop that has no send phase.
never_sends(enabled, q) == FALSE

\* A send phase that does not look at the flag.
may_send_whenever_queued(enabled, q) == q # <<>>

\* if sending_measurements_enabled and not buffer.empty()
may_send(enabled, q) == enabled /\ q # <<>>

\* The send phase: one item leaves the queue, is stamped and encoded, and
\* the worker sleeps before it writes.  received_data is not read again
\* before the top of the loop empties it, and is emptied here.
SendPhase(s, h0, c, l) ==
    LET h == [h0 EXCEPT !.received_data = <<>>]
    IN  IF may_send(h.sending_measurements_enabled, buffer[s])
        THEN SessionStep(s, [h EXCEPT !.data = stamp(get(buffer[s]), s),
                                      !.pc = "sleep"],
                         Tail(buffer[s]), c, l)
        ELSE SessionStep(s, [h EXCEPT !.pc = "poll"], buffer[s], c, l)

\* The command phase, then the send phase.  A reply is stamped and encoded
\* in one go, on the worker's own copy of the frame.
Dispatch(s, h0, c, l, command) ==
    LET h == [h0 EXCEPT !.command = command]
        reply == reply_to(args[s], command)
    IN  IF command_raises(args[s], command)
        THEN SessionStep(s, Close(h), buffer[s], c, l)
        ELSE \E w \in (IF reply = <<>> THEN {"ok"} ELSE SendallOutcomes(s)) :
               IF w = "raise"
               THEN SessionStep(s, Close(h), buffer[s], c, l)
               ELSE SendPhase(s,
                      [h EXCEPT !.sending_measurements_enabled =
                                   sending_after(command, @)],
                      IF reply = <<>> THEN c
                      ELSE [c EXCEPT !.out = [via |-> "reply",
                                              frame |-> stamp(reply[1], s)]],
                      l)

CommandFrames == {CommandBytes(c) : c \in Commands}

\* The frames that make up bs when bs is frames laid end to end.
RECURSIVE IsFrames(_)
IsFrames(bs) ==
    \/ bs = <<>>
    \/ /\ Len(bs) >= 6
       /\ Take(bs, 6) \in CommandFrames \cup {DataBytes}
       /\ IsFrames(Drop(bs, 6))

\* What the bytes thrown away held: a complete command frame behind
\* another frame ("behind_frame"), or behind bytes that are no frame
\* ("behind_malformed").
Lost(bs) ==
    IF \E i \in 2..Len(bs) - 5 :
         /\ SubSeq(bs, i, i + 5) \in CommandFrames
         /\ ~IsFrames(Take(bs, i - 1))
    THEN "behind_malformed"
    ELSE IF \E i \in 2..Len(bs) - 5 : SubSeq(bs, i, i + 5) \in CommandFrames
    THEN "behind_frame"
    ELSE "none"

\* The command the loop holds after its read phase has received rd.
received_command(rd) ==
    LET f == convert2frame(rd)
    IN  IF Len(rd) = FrameSize(rd) /\ ~f.error /\ f.cls = "CommandFrame"
        THEN f.command ELSE "None"

\* The records the worker's logger emits in a loop iteration that received
\* rd and completes: one for what was received (the command, the frame
\* type, "unknown message" or "not received completely"), and one more in
\* each branch of the command phase.
log_events(rd) ==
    1 + (IF received_command(rd) \in
               {"start", "stop", "header", "cfg1", "cfg2", "cfg3"}
         THEN 1 ELSE 0)

\* The end of the read phase: decode what was received, if its length is
\* the declared one.
Decode(s, h, c, l) ==
    LET rd == h.received_data
        command == received_command(rd)
        l2 == IF command = "None" /\ Lost(rd) # "none"
              THEN [l EXCEPT !.lost = Lost(rd)] ELSE l
    IN  Dispatch(s, h, c, l2, command)

\* Top of the loop: command = None, received_data = b"", select with a
\* zero timeout; with nothing to read the loop goes on to the send phase.
Poll(s) ==
    /\ handler[s].pc = "poll"
    /\ LET h == [handler[s] EXCEPT !.received_data = <<>>, !.command = "None"]
       IN  IF RecvKind(s) # "wait"
           THEN SessionStep(s, [h EXCEPT !.pc = "hdr"], buffer[s], conn[s], log[s])
           ELSE Dispatch(s, h, conn[s], log[s], "None")

\* while len(received_data) < 4: received_data += connection.recv(buffer_size)
RecvHeader(s) ==
    /\ handler[s].pc = "hdr"
    /\ RecvKind(s) # "wait"
    /\ \E n \in Chunks(s, buffer_size) :
       LET h == handler[s]
           rd == h.received_data \o Take(conn[s].inb, n)
       IN  CASE RecvKind(s) = "raise" ->
                  SessionStep(s, Close(h), buffer[s], conn[s],
                              [log[s] EXCEPT !.read_end = "error"])
             [] RecvKind(s) = "eos" ->
                  SessionStep(s, h, buffer[s], conn[s],
                              [log[s] EXCEPT !.read_end = "eos"])
             [] RecvKind(s) = "bytes" ->
                  SessionStep(s,
                      [h EXCEPT !.received_data = rd,
                                !.pc = IF Len(rd) < 4 THEN "hdr" ELSE "body"],
                      buffer[s], [conn[s] EXCEPT !.inb = Drop(@, n)], log[s])

\* while bytes_received < total_frame_size: recv the rest, break on b"";
\* then decode, command phase and send phase.
RecvBody(s) ==
    /\ handler[s].pc = "body"
    /\ LET h == handler[s]
           total_frame_size == FrameSize(h.received_data)
           bytes_received == Len(h.received_data)
       IN  IF bytes_received < total_frame_size
           THEN /\ RecvKind(s) # "wait"
                /\ \E n \in Chunks(s, Min(total_frame_size - bytes_received,
                                          buffer_size)) :
                   CASE RecvKind(s) = "raise" ->
                          SessionStep(s, Close(h), buffer[s], conn[s],
                                      [log[s] EXCEPT !.read_end = "error"])
                     [] RecvKind(s) = "eos" ->
                          Decode(s, h, conn[s],
                                 [log[s] EXCEPT !.read_end = "eos_midframe"])
                     [] RecvKind(s) = "bytes" ->
                          SessionStep(s,
                              [h EXCEPT !.received_data =
                                          @ \o Take(conn[s].inb, n)],
                              buffer[s], [conn[s] EXCEPT !.inb = Drop(@, n)],
                              log[s])
           ELSE Decode(s, h, conn[s], log[s])

\* sleep(delay); connection.sendall(data)
Write(s) ==
    /\ handler[s].pc = "sleep"
    /\ \E w \in SendallOutcomes(s) :
         IF w = "raise"
         THEN SessionStep(s, Close(handler[s]), buffer[s], conn[s], log[s])
         ELSE SessionStep(s, [handler[s] EXCEPT !.pc = "poll", !.data = NoFrame],
                          buffer[s],
                          [conn[s] EXCEPT !.out =
                              [via |-> "queue", frame |-> handler[s].data]],
                          log[s])

Handler(s) == Poll(s) \/ RecvHeader(s) \/ RecvBody(s) \/ Write(s)

\* ---------------------------------------------- a reply, step by step
\* Workers that are threads of one process: all of them stamp and encode
\* the frame objects the first was handed.
frames_of_first(s) == 1

\* The frame objects the worker of s stamps and encodes: its own, the
\* copies its process got of the arguments of Process(target=pdc_handler,
\* args=(..., cfg1, cfg2, cfg3, header, ...)).
frames_of(s) == s

\* The read phase of s has ended with a request the worker has a frame for.
HoldsRequest(s) ==
    /\ handler[s].pc = "body"
    /\ received_command(handler[s].received_data) \in {"header", "cfg1", "cfg2"}

\* header.set_time() / cfg1.set_time() / cfg2.set_time()
StampReply(s) ==
    /\ HoldsRequest(s)
    /\ LET command == received_command(handler[s].received_data)
       IN  /\ handler' = [handler EXCEPT ![s].command = command,
                                         ![s].pc = "reply"]
           /\ args' = [args EXCEPT ![frames_of(s)][command] = stamp(@, s)]
    /\ UNCHANGED <<serverVars, buffer, conn, log>>

\* connection.sendall(frame.convert2bytes()), then the send phase.
WriteReply(s) ==
    /\ handler[s].pc = "reply"
    /\ \E w \in SendallOutcomes(s) :
         IF w = "raise"
         THEN SessionStep(s, Close(handler[s]), buffer[s], conn[s], log[s])
         ELSE SendPhase(s, handler[s],
                        [conn[s] EXCEPT !.out =
                            [via |-> "reply",
                             frame |-> args[frames_of(s)][handler[s].command]]],
                        log[s])

\* One connection, followed byte by byte: the workers share nothing but
\* the queues the server broadcasts into.
Next ==
    \/ Run
    \/ Accept(1)
    \/ Send
    \/ SendData
    \/ \E m \in PeerMsgs : PeerSend(1, m)
    \/ PeerClose(1)
    \/ PeerReset(1)
    \/ Poll(1)
    \/ RecvHeader(1)
    \/ RecvBody(1)
    \/ Write(1)

Spec == Init /\ [][Next]_vars

\* The worker is a process of its own: it keeps taking steps.
FairSpec == Spec /\ WF_vars(Handler(1))

\* The configuration calls, against connections that ask for the frames:
\* the peer of the first connection makes the requests, a further
\* connection only has its queue filled.
NextCfg ==
    \/ Run
    \/ \E s \in Sessions : Accept(s)
    \/ \E config \in ConfigInputs : SetConfiguration(config)
    \/ \E pmu_id \in Ids : SetId(pmu_id)
    \/ \E data_rate \in Rates : SetDataRate(data_rate)
    \/ \E data_format \in Formats : SetDataFormat(data_format)
    \/ \E m \in Requests : npeer < MaxRequests /\ PeerSend(1, m)
    \/ Poll(1)
    \/ RecvHeader(1)
    \/ RecvBody(1)

SpecCfg == Init /\ [][NextCfg]_vars

\* Two connections side by side, each with its worker; a connection may
\* fail.
NextPair ==
    \/ Run
    \/ \E s \in Sessions : Accept(s)
    \/ Send
    \/ \E s \in Sessions : \E m \in {"start", "cfg2"} : PeerSend(s, m)
    \/ \E s \in Sessions : PeerReset(s)
    \/ \E s \in Sessions : Poll(s)
    \/ \E s \in Sessions : RecvHeader(s)
    \/ \E s \in Sessions : RecvBody(s)
    \/ \E s \in Sessions : Write(s)

SpecPair == Init /\ [][NextPair]_vars

\* Shutdown: the acceptor thread step by step against a thread in stop,
\* with workers that stream what the producer broadcasts.
NextStop ==
    \/ Run
    \/ AcceptReturn
    \/ AcceptorExit
    \/ StartWorker
    \/ Register
    \/ StopBegin
    \/ StopEnd
    \/ Send
    \/ \E s \in Sessions : PeerSend(s, "start")
    \/ \E s \in Sessions : Poll(s)
    \/ \E s \in Sessions : RecvHeader(s)
    \/ \E s \in Sessions : RecvBody(s)
    \/ \E s \in Sessions : Write(s)

SpecStop == Init /\ [][NextStop]_vars

\* Two connections whose workers answer requests and stream at the same
\* time, a reply taken in its two steps.
NextStamp ==
    \/ Run
    \/ \E s \in Sessions : Accept(s)
    \/ Send
    \/ \E s \in Sessions : \E m \in {"start", "header", "cfg2"} : PeerSend(s, m)
    \/ \E s \in Sessions : Poll(s)
    \/ \E s \in Sessions : RecvHeader(s)
    \/ \E s \in Sessions : ~HoldsRequest(s) /\ RecvBody(s)
    \/ \E s \in Sessions : StampReply(s)
    \/ \E s \in Sessions : WriteReply(s)
    \/ \E s \in Sessions : Write(s)

SpecStamp == Init /\ [][NextStamp]_vars

\* The simulator: the identity is set before run (PMUSimulator.start), the
\* producer loop broadcasts measurements, and a PDC that keeps its
\* connection open sends "start" and requests.
NextStream ==
    \/ \E pmu_id \in Ids : socket = "None" /\ SetId(pmu_id)
    \/ Run
    \/ Accept(1)
    \/ Send
    \/ \E m \in {"start", "header", "cfg2"} : PeerSend(1, m)
    \/ Poll(1)
    \/ RecvHeader(1)
    \/ RecvBody(1)
    \/ Write(1)

SpecStream == Init /\ [][NextStream]_vars

\* The worker is a process of its own: it keeps taking steps.
FairStream == SpecStream /\ WF_vars(Handler(1))

\* The calls a program makes on the server, against two connections whose
\* queues fill up: no worker drains them.
NextApi ==
    \/ Run
    \/ \E s \in Sessions : Accept(s)
    \/ \E frame \in SendInputs : send(frame)
    \/ SendData
    \/ \E h \in HeaderInputs : SetHeader(h)
    \/ \E pmu_id \in Ids : SetId(pmu_id)

SpecApi == Init /\ [][NextApi]_vars

\* ------------------------------------------- the simulator front end
\* pmu_threads and pmu_instances map a name to the number of the thread
\* started for it, 0 when the name is not in the dictionary.  The Pmu
\* objects of the simulators are followed by their state only; pmuVars is
\* the one Pmu the rest of the module follows step by step.
pmuVars == <<cfg1, cfg2, cfg3, header, heap, socket, stopped, listener,
             stopping, raised, clients, client_buffers, nsends, npeer,
             ncfgops, sessionVars>>

\* The threads started so far for name n.
Started(n) == {k \in 1..MaxStarts : simulator[n][k].pc # "unborn"}

\* A Pmu of another simulator is listening on the port.
PortBusy(port) ==
    \E n \in Names : \E k \in 1..MaxStarts :
        simulator[n][k].pmu = "running" /\ simulator[n][k].port = port

\* PMUSimulatorUI.start_selected_pmu, one device selected.
StartSelectedPmu(n) ==
    /\ pmu_configs[n] # NoProfile
    /\ IF pmu_threads[n] # 0
       THEN /\ messagebox' = "Already running"
            /\ UNCHANGED <<pmu_threads, pmu_instances, simulator, pmu_configs>>
       ELSE /\ Cardinality(Started(n)) < MaxStarts
            /\ LET k == Cardinality(Started(n)) + 1
               IN  /\ pmu_threads' = [pmu_threads EXCEPT ![n] = k]
                   /\ simulator' = [simulator EXCEPT ![n][k] =
                         [pc |-> "start_simulation", pmu |-> "None",
                          port |-> pmu_configs[n].port]]
            /\ messagebox' = "Simulation started"
            /\ UNCHANGED <<pmu_instances, pmu_configs>>
    /\ UNCHANGED pmuVars

\* PMUSimulatorUI.stop_selected_pmu
StopSelectedPmu(n) ==
    /\ pmu_configs[n] # NoProfile
    /\ IF pmu_threads[n] = 0
       THEN /\ messagebox' = "is not running!"
            /\ UNCHANGED pmu_threads
       ELSE /\ pmu_threads' = [pmu_threads EXCEPT ![n] = 0]
            /\ messagebox' = "stopped successfully"
    /\ UNCHANGED <<pmu_instances, simulator, pmu_configs, pmuVars>>

\* start_simulation: the simulator is built and registered.
StartSimulation(n, k) ==
    /\ simulator[n][k].pc = "start_simulation"
    /\ pmu_instances' = [pmu_instances EXCEPT ![n] = k]
    /\ simulator' = [simulator EXCEPT ![n][k].pc = "start"]
    /\ UNCHANGED <<pmu_threads, pmu_configs, messagebox, pmuVars>>

\* What self.pmu.run() comes to: bind fails on a port that is in use, and
\* may fail for a reason outside the program.
RunOutcomes(port) == IF PortBusy(port) THEN {"OSError"} ELSE {"ok", "OSError"}

\* PMUSimulator.start up to the loop: the Pmu is built, configured and run.
\* An exception takes the thread to the finally clause.
StartUp(n, k) ==
    /\ simulator[n][k].pc = "start"
    /\ \E r \in RunOutcomes(simulator[n][k].port) :
         simulator' = [simulator EXCEPT ![n][k] =
            IF r = "ok" THEN [@ EXCEPT !.pc = "loop", !.pmu = "running"]
            ELSE [@ EXCEPT !.pc = "finally", !.pmu = "built"]]
    /\ UNCHANGED <<pmu_threads, pmu_instances, pmu_configs, messagebox,
                   pmuVars>>

\* while self.pmu_name in pmu_threads: send a measurement or wait, sleep.
Loop(n, k) ==
    /\ simulator[n][k].pc = "loop"
    /\ simulator' = [simulator EXCEPT ![n][k].pc =
                        IF pmu_threads[n] # 0 THEN "loop" ELSE "finally"]
    /\ UNCHANGED <<pmu_threads, pmu_instances, pmu_configs, messagebox,
                   pmuVars>>

\* finally: self.pmu.stop(); del pmu_instances[self.pmu_name]
Finally(n, k) ==
    /\ simulator[n][k].pc = "finally"
    /\ simulator' = [simulator EXCEPT ![n][k] =
          [@ EXCEPT !.pc = "ended",
                    !.pmu = IF @ = "None" THEN "None" ELSE "stopped"]]
    /\ pmu_instances' = [pmu_instances EXCEPT ![n] = 0]
    /\ UNCHANGED <<pmu_threads, pmu_configs, messagebox, pmuVars>>

SimulationThread(n, k) ==
    StartSimulation(n, k) \/ StartUp(n, k) \/ Loop(n, k) \/ Finally(n, k)

\* The device list of the UI with its Start and Stop buttons, and the
\* simulation threads they start.
NextSim ==
    \/ \E n \in Names : StartSelectedPmu(n)
    \/ \E n \in Names : StopSelectedPmu(n)
    \/ \E n \in Names : \E k \in 1..MaxStarts : StartSimulation(n, k)
    \/ \E n \in Names : \E k \in 1..MaxStarts : StartUp(n, k)
    \/ \E n \in Names : \E k \in 1..MaxStarts : Loop(n, k)
    \/ \E n \in Names : \E k \in 1..MaxStarts : Finally(n, k)

SpecSim == Init /\ [][NextSim]_vars

\* Every simulation thread is a thread of its own: it keeps taking steps.
FairSim ==
    SpecSim /\ \A n \in Names : \A k \in 1..MaxStarts :
                  WF_vars(SimulationThread(n, k))

\* ------------------------------------------------- the stored profiles
\* What json.load may hand to import_config: a dict of profiles by name.
ImportFiles == [Names -> Profiles \cup {NoProfile}]

\* The names that are keys of the dict d.
Keys(d) == {n \in Names : d[n] # NoProfile}

\* The errors import_config collects for the dict imported: an id or a
\* port of the file that a stored profile has, or that the file has twice.
errors(imported) ==
    LET existing_ids == {pmu_configs[n].pmu_id : n \in Keys(pmu_configs)}
        existing_ports == {pmu_configs[n].port : n \in Keys(pmu_configs)}
        new == Keys(imported)
    IN  {<<"Asset ID conflicts with existing device", imported[n].pmu_id>> :
            n \in {m \in new : imported[m].pmu_id \in existing_ids}}
        \cup
        {<<"Asset ID appears more than once", imported[n].pmu_id>> :
            n \in {m \in new : \E o \in new \ {m} :
                                  imported[o].pmu_id = imported[m].pmu_id}}
        \cup
        {<<"Port conflicts with existing device", imported[n].port>> :
            n \in {m \in new : imported[m].port \in existing_ports}}
        \cup
        {<<"Port appears more than once", imported[n].port>> :
            n \in {m \in new : \E o \in new \ {m} :
                                  imported[o].port = imported[m].port}}

\* PMUSimulatorUI.import_config, once the file is read.
ImportConfig(imported) ==
    /\ IF errors(imported) # {}
       THEN /\ messagebox' = "Import validation failed"
            /\ UNCHANGED pmu_configs
       ELSE /\ pmu_configs' = [n \in Names |->
                                 IF n \in Keys(imported) THEN imported[n]
                                 ELSE pmu_configs[n]]
            /\ messagebox' = "Success"
    /\ UNCHANGED <<pmu_threads, pmu_instances, simulator, pmuVars>>

\* PMUSimulatorUI.delete_pmu, confirmed.
DeletePmu(n) ==
    /\ n \in Keys(pmu_configs)
    /\ pmu_configs' = [pmu_configs EXCEPT ![n] = NoProfile]
    /\ messagebox' = "Deleted"
    /\ UNCHANGED <<pmu_threads, pmu_instances, simulator, pmuVars>>

\* The device list under imports and deletions.
NextImport ==
    \/ \E imported \in ImportFiles : ImportConfig(imported)
    \/ \E n \in Names : DeletePmu(n)

SpecImport == Init /\ [][NextImport]_vars

\* ------------------------------------------------------------ properties
\* Steps of a worker, read off two successive states.
Accepted(s) == handler[s].pc = "free" /\ handler'[s].pc # "free"

\* The read phase ended and the command phase ran to its end.
Processed(s) == handler[s].pc = "body" /\ handler'[s].pc \in {"poll", "sleep"}

\* The read phase ended, whatever came of the command phase.
ReadEnded(s) == handler[s].pc = "body" /\ handler'[s].pc # "body"

Dequeued(s) == Len(buffer'[s]) < Len(buffer[s])

Wrote(s) == handler[s].pc = "sleep" /\ handler'[s].pc = "poll"

Streaming(s) == handler[s].sending_measurements_enabled

\* C1: a delivery queue never holds more than its capacity N, and the item
\* enqueued last is always in it (on a full queue a put evicts the oldest
\* item and admits the new one).
C1_DropOldest ==
    \A s \in Sessions :
        /\ Len(buffer[s]) <= QueueCapacity
        /\ buffer[s] # <<>> => Last(buffer[s]).seq = nsends

\* C2: a processed "start" leaves the streaming flag true and a processed
\* "stop" leaves it false, whatever it was; no other step of any kind
\* changes the flag.
C2_StartStopSetFlag ==
    [][\A s \in Sessions :
          LET c == handler'[s].command
              after == handler'[s].sending_measurements_enabled
          IN  /\ Processed(s) /\ c = "start" => after
              /\ Processed(s) /\ c = "stop" => ~after
              /\ ~(Processed(s) /\ c \in {"start", "stop"}) =>
                    after = Streaming(s)]_vars

\* C2 witness: a "stop" has been processed after a frame was streamed, and
\* the session is idle again.
C2_Witness ==
    \E s \in Sessions :
        /\ handler[s].command = "stop"
        /\ ~Streaming(s)
        /\ conn[s].out.via = "queue"

\* C3: a session starts idle, and an item leaves its queue, and is written
\* to its socket, only while its streaming flag is true.
C3_SendsOnlyWhileStreaming ==
    [][\A s \in Sessions :
          /\ Accepted(s) => ~handler'[s].sending_measurements_enabled
          /\ Dequeued(s) => handler'[s].sending_measurements_enabled
          /\ Wrote(s) => Streaming(s) /\ handler'[s].sending_measurements_enabled
          /\ ~Streaming(s) /\ ~(Processed(s) /\ handler'[s].command = "start")
                => ~Dequeued(s) /\ ~Wrote(s)]_vars

\* C3 witness: a session has written an item of its queue and has then
\* gone idle with items still queued.
C3_Witness ==
    \E s \in Sessions :
        /\ conn[s].out.via = "queue"
        /\ ~Streaming(s)
        /\ buffer[s] # <<>>

\* C4: once a read of a session has returned end-of-stream or raised, the
\* session eventually is closed.
C4_ReadEndLeadsToClosed ==
    \A s \in Sessions : log[s].read_end # "none" ~> handler[s].pc = "closed"

\* C5: once a peer has disconnected in the middle of a frame (the size
\* field was read, the declared bytes never came), the session eventually
\* is closed.
C5_MidFrameDisconnectCloses ==
    \A s \in Sessions :
        log[s].read_end = "eos_midframe" ~> handler[s].pc = "closed"

\* C6: the frame written in reply to "cfg2" carries the station name and
\* the channel layout of the server's cfg2 at the time of the request.
C6_Cfg2ReplyIsCurrent ==
    [][\A s \in Sessions :
          Processed(s) /\ handler'[s].command = "cfg2" =>
              /\ conn'[s].out.via = "reply"
              /\ conn'[s].out.frame.station = Station(cfg2)
              /\ conn'[s].out.frame.channels = Channels(cfg2)]_vars

\* C7: cfg1 and cfg2 of the server describe the same channel layout.
C7_SameLayout ==
    /\ Station(cfg1) = Station(cfg2)
    /\ Channels(cfg1) = Channels(cfg2)

\* C8: a request (header, cfg1, cfg2, cfg3) changes neither the streaming
\* flag nor the queue; the session stays open; the frame asked for is
\* written if the session has one, and nothing is written if it has none.
C8_RequestsAnswered ==
    [][\A s \in Sessions :
          LET rd == handler[s].received_data
              f == convert2frame(rd)
              has == CASE f.command = "header" -> args[s].header.cls # "None"
                       [] f.command = "cfg1" -> args[s].cfg1.cls # "None"
                       [] f.command = "cfg2" -> args[s].cfg2.cls # "None"
                       [] f.command = "cfg3" -> args[s].cfg3 # "None"
          IN  ReadEnded(s) /\ Len(rd) = FrameSize(rd) /\ ~f.error
              /\ f.command \in Requests =>
                  /\ handler'[s].pc # "closed"
                  /\ handler'[s].sending_measurements_enabled = Streaming(s)
                  /\ buffer'[s] = buffer[s]
                  /\ has => conn'[s].out.via = "reply"
                  /\ ~has => conn'[s].out = conn[s].out]_vars

\* The read phase of s is about to end on an exception of recv.
ReadRaises(s) ==
    /\ Len(handler[s].received_data) < FrameSize(handler[s].received_data)
    /\ RecvKind(s) = "raise"

\* C9: bytes that were read without a transport error and do not decode
\* leave the session open and its flag as it was, and a complete command
\* frame that follows them is not thrown away with them.
C9_MalformedIsNonFatal ==
    [][\A s \in Sessions :
          LET rd == handler[s].received_data
          IN  /\ ReadEnded(s) /\ ~ReadRaises(s)
                 /\ (Len(rd) # FrameSize(rd) \/ convert2frame(rd).error) =>
                    /\ handler'[s].pc # "closed"
                    /\ handler'[s].sending_measurements_enabled = Streaming(s)
              /\ log'[s].lost # "behind_malformed"]_vars

\* A complete "stop" frame is next on the socket of s.
StopPending(s) ==
    /\ Len(conn[s].inb) >= 6
    /\ Take(conn[s].inb, 6) = CommandBytes("stop")

\* C10: no measurement is written while a "stop" is pending on the socket.
C10_NoWriteWhileStopPending ==
    [][\A s \in Sessions : Wrote(s) => ~StopPending(s)]_vars

\* A call of stop begins, and a call of stop returns.
StopCalled == ~stopping /\ stopping'

StopReturns == stopping /\ ~stopping'

\* No worker runs.
NoWorkerRuns == \A s \in Sessions : ~Live(s)

\* C11: stop closes the listening socket and, when it returns, every worker
\* that was registered has ended and the registry of workers is empty; it
\* raises nothing; and a stop on a server that is not listening and has no
\* worker registered (a second stop, or a stop before run) changes neither
\* the socket, the acceptor, the workers, the registries, the queues nor
\* the configuration.
C11_StopTerminatesAndIsIdempotent ==
    [][/\ StopCalled => socket' = "None" /\ stopped'
       /\ StopReturns =>
             /\ clients' = <<>>
             /\ \A i \in 1..Len(clients) :
                   handler'[clients[i]].pc \in {"closed", "terminated"}
       /\ StopCalled \/ StopReturns => raised' = raised
       /\ (StopCalled \/ StopReturns) /\ socket = "None" /\ clients = <<>> =>
             UNCHANGED <<cfg1, cfg2, cfg3, header, heap, socket, listener,
                         clients, client_buffers, sessionVars>>]_vars

\* C11 witness: stop has returned on a server with a running worker, which
\* it has terminated.
C11_Witness ==
    /\ stopped /\ ~stopping
    /\ socket = "None"
    /\ clients = <<>>
    /\ \E s \in Sessions : handler[s].pc = "terminated"

\* C12: once stop has returned (and run has not been called again) no
\* worker runs, whichever way stop and the acceptor thread interleaved.
C12_NoWorkerAfterStop == stopped /\ ~stopping => NoWorkerRuns

\* C13: once stop has returned the server holds no worker and no queue:
\* both registries are empty.
C13_RegistriesEmptyAfterStop ==
    stopped /\ ~stopping => clients = <<>> /\ client_buffers = <<>>

\* C14: as long as no configuration call has been made on the server, run
\* opens no listening socket and starts no acceptor.
C14_RunNeedsConfiguration ==
    [][ncfgops = 0 => socket' = "None" /\ listener' = "None"]_vars

\* The queue of s is in client_buffers.
Registered(s) == \E i \in 1..Len(client_buffers) : client_buffers[i] = s

IsSuffix(a, b) ==
    Len(a) <= Len(b) /\ a = SubSeq(b, Len(b) - Len(a) + 1, Len(b))

\* C15: a send of a frame appends that frame exactly once to the queue of
\* every session registered at the call and to no other; a session starts
\* with an empty queue; so, with nothing drained, the queue of a session
\* accepted later holds exactly the frames sent since it was accepted (it
\* is the tail of the queue of any session accepted before it).
C15_BroadcastMembership ==
    [][/\ \A frame \in SendInputs \ {"str"} :
             send(frame) =>
                \A s \in Sessions :
                   buffer'[s] = IF Registered(s)
                                THEN Append(buffer[s], Item(frame, nsends + 1))
                                ELSE buffer[s]
       /\ \A s \in Sessions : Accepted(s) => buffer'[s] = <<>>
       /\ \A s, u \in Sessions :
             s < u => IsSuffix(buffer'[u], buffer'[s])]_vars

\* C15 witness: the first session holds two frames, the second, accepted
\* between the two sends, only the later one.
C15_Witness ==
    /\ Len(buffer[1]) = 2
    /\ buffer[1][1].seq = 1
    /\ Len(buffer[2]) = 1
    /\ buffer[2][1].seq = 2

\* C16: a queue changes only by a put at its tail or a get at its head,
\* what is written is what was dequeued, and the items keep the order of
\* their enqueuing: every item still queued was enqueued after the item
\* dequeued and awaiting its write, which was enqueued after the item
\* written last.
C16_NoReordering ==
    [][\A s \in Sessions :
          LET h == handler'[s]
              q == buffer'[s]
              o == conn'[s].out
          IN  /\ \/ q = buffer[s]
                 \/ /\ buffer[s] # <<>>
                    /\ q = Tail(buffer[s])
                    /\ h.data = stamp(Head(buffer[s]), s)
                 \/ q # <<>> /\ Take(q, Len(q) - 1) = buffer[s]
              /\ Wrote(s) => o = [via |-> "queue", frame |-> handler[s].data]
              /\ \A i \in 1..Len(q) :
                    /\ i > 1 => q[i - 1].seq < q[i].seq
                    /\ h.pc = "sleep" => h.data.seq < q[i].seq
                    /\ o.via = "queue" => o.frame.seq < q[i].seq
              /\ h.pc = "sleep" /\ o.via = "queue" => o.frame.seq < h.data.seq]_vars

\* C16 witness: the first item has been written and the second has been
\* dequeued and awaits its write.
C16_Witness ==
    \E s \in Sessions :
        /\ conn[s].out.via = "queue"
        /\ conn[s].out.frame.seq = 1
        /\ handler[s].pc = "sleep"
        /\ handler[s].data.seq = 2

\* Session s closes.
Closes(s) == handler[s].pc # "closed" /\ handler'[s].pc = "closed"

\* C17: the step that closes a session changes neither the streaming flag,
\* the queue nor the connection of any other session; a frame broadcast
\* after a session closed is still appended to the queue of every other
\* registered session; and the broadcast can always be made.
C17_SessionIsolation ==
    [][\A a, b \in Sessions :
          a # b =>
            /\ Closes(a) =>
                  /\ handler'[b] = handler[b]
                  /\ buffer'[b] = buffer[b]
                  /\ conn'[b] = conn[b]
            /\ handler[a].pc = "closed" /\ Registered(b)
                /\ nsends' = nsends + 1 =>
                  buffer'[b] = Append(buffer[b],
                                      DataFrame(heap[cfg2].id_code, cfg2, nsends'))
            /\ handler[a].pc = "closed" /\ nsends < MaxSends => ENABLED Send]_vars

\* C17 witness: a session has closed, and another has since written a frame
\* that was broadcast after that.
C17_Witness ==
    \E a, b \in Sessions :
        /\ a # b
        /\ handler[a].pc = "closed"
        /\ conn[b].out.via = "queue"
        /\ conn[b].out.frame.seq > log[a].closed_at

\* C18: a send of something that is neither a frame nor bytes raises
\* PmuError and leaves every queue as it was; no queue ever holds such an
\* item.
C18_SendRejectsOtherKinds ==
    [][/\ send("str") =>
             /\ raised' = "Invalid frame type."
             /\ buffer' = buffer
       /\ \A s \in Sessions : \A i \in 1..Len(buffer'[s]) :
             buffer'[s][i].cls # "str"]_vars

\* C18 witness: a send has been rejected on a server whose sessions hold
\* queued frames.
C18_Witness ==
    /\ raised = "Invalid frame type."
    /\ \A s \in Sessions : Registered(s) /\ buffer[s] # <<>>

\* C19: set_header replaces the header when handed a text or a HeaderFrame;
\* handed anything else it raises PmuError and leaves the header as it was.
C19_SetHeaderRejectsOtherKinds ==
    [][\A h \in HeaderInputs :
          SetHeader(h) =>
             IF h \in {"str", "HeaderFrame"}
             THEN /\ raised' = "None"
                  /\ header'.cls = "HeaderFrame"
                  /\ header'.text = (IF h = "str" THEN "a text" ELSE "a HeaderFrame")
             ELSE /\ raised' = "Incorrect header setup!"
                  /\ header' = header]_vars

\* C19, amended: set_header replaces the header when handed a text or a
\* HeaderFrame; handed nothing (None) it returns without raising and leaves
\* the header as it was; handed anything else it raises PmuError and leaves
\* the header as it was.
C19_SetHeaderAcceptsNone ==
    [][\A h \in HeaderInputs :
          SetHeader(h) =>
             CASE h = "str" ->
                    /\ raised' = "None"
                    /\ header' = HeaderFrame(heap[cfg2].id_code, "a text")
               [] h = "HeaderFrame" ->
                    /\ raised' = "None"
                    /\ header'.cls = "HeaderFrame"
                    /\ header'.text = "a HeaderFrame"
               [] h = "None" ->
                    /\ raised' = "None"
                    /\ header' = header
               [] OTHER ->
                    /\ raised' = "Incorrect header setup!"
                    /\ header' = header]_vars

\* C19 witness: a header was set from a text, and a later set_header with
\* another kind of input was rejected and has left it in place.
C19_Witness ==
    /\ raised = "Incorrect header setup!"
    /\ header.text = "a text"

\* C20: after set_id(x) cfg1 and cfg2 both carry the identity x, and the
\* queue of every registered session, and no other, has got one more item
\* at its tail: cfg2 with the identity x.
C20_SetIdPropagatesAndPushes ==
    [][\A x \in Ids :
          SetId(x) =>
             /\ heap'[cfg1'].id_code = x
             /\ heap'[cfg2'].id_code = x
             /\ \A s \in Sessions :
                   buffer'[s] =
                     IF Registered(s)
                     THEN Append(buffer[s], [ConfigValue(cfg2) EXCEPT !.id_code = x])
                     ELSE buffer[s]]_vars

\* C20 witness: cfg1 and cfg2 are two frames, both have been given the
\* identity 780 by one set_id, and both sessions have cfg2 queued.
C20_Witness ==
    /\ cfg1 = "sample" /\ cfg2 = "u2"
    /\ heap["sample"].id_code = 780
    /\ \A s \in Sessions :
          /\ Registered(s)
          /\ buffer[s] # <<>>
          /\ Last(buffer[s]).station = Station("u2")
          /\ Last(buffer[s]).id_code = 780

\* The next call of the worker of s on its socket raises: a read of the
\* read phase, the reply of the command phase, or the write of the send
\* phase, on a connection that was reset.
RaisesNext(s) ==
    /\ conn[s].peer = "reset"
    /\ \/ handler[s].pc = "hdr"
       \/ handler[s].pc = "sleep"
       \/ /\ handler[s].pc = "body"
          /\ LET rd == handler[s].received_data
             IN  \/ Len(rd) < FrameSize(rd)
                 \/ /\ Len(rd) = FrameSize(rd)
                    /\ convert2frame(rd).command \in {"header", "cfg1", "cfg2"}

\* C21: an exception in the read, command or send phase of a worker closes
\* that session, and the step changes neither the acceptor, the listening
\* socket, the registries nor any other session; the acceptor can go on
\* accepting.
C21_WorkerExceptionClosesOnlyItsSession ==
    [][\A a \in Sessions :
          /\ RaisesNext(a) /\ handler'[a] # handler[a] => handler'[a].pc = "closed"
          /\ Closes(a) =>
                /\ UNCHANGED <<socket, stopped, listener, clients, client_buffers>>
                /\ \A b \in Sessions \ {a} :
                      /\ handler'[b] = handler[b]
                      /\ conn'[b] = conn[b]
                      /\ log'[b] = log[b]
          /\ handler'[a].pc = "closed" /\ Len(client_buffers') < MaxSessions =>
                listener' = "accept" /\ socket' = "listening"]_vars

\* C21 witness: one session was closed by an exception in its command
\* phase (the reply to a request could not be written), the other by one
\* in its read phase.
C21_Witness ==
    \E a, b \in Sessions :
        /\ handler[a].pc = "closed"
        /\ handler[a].command = "cfg2"
        /\ log[a].read_end = "none"
        /\ handler[b].pc = "closed"
        /\ log[b].read_end = "error"

\* The worker of s holds a complete, well-formed command frame whose
\* command has no branch in the command phase.
HoldsUnrecognized(s) ==
    /\ handler[s].pc = "body"
    /\ received_command(handler[s].received_data)
         \notin {"None", "start", "stop", "header", "cfg1", "cfg2", "cfg3"}

\* C22: processing a well-formed command that is none of start, stop,
\* header, cfg1, cfg2, cfg3 keeps the session open, leaves the streaming
\* flag as it was, writes nothing, takes from the queue only what the send
\* phase of that iteration takes while streaming, and logs one record.
C22_UnrecognizedCommandIsIgnored ==
    [][\A s \in Sessions :
          HoldsUnrecognized(s) /\ handler'[s] # handler[s] =>
             /\ handler'[s].pc \in {"poll", "sleep"}
             /\ handler'[s].sending_measurements_enabled
                  = handler[s].sending_measurements_enabled
             /\ conn'[s].out = conn[s].out
             /\ buffer'[s] =
                  IF may_send(handler[s].sending_measurements_enabled, buffer[s])
                  THEN Tail(buffer[s]) ELSE buffer[s]
             /\ log_events(handler[s].received_data) = 1]_vars

\* C22 witness: a streaming session has processed "extended" and went on
\* to the send phase of the same iteration with a frame from its queue.
C22_Witness ==
    \E s \in Sessions :
        /\ handler[s].command = "extended"
        /\ handler[s].sending_measurements_enabled
        /\ handler[s].pc = "sleep"

\* C23: once a session is closed its queue is no longer registered for
\* broadcast and its worker is no longer among the server's clients.
C23_ClosedSessionIsUnregistered ==
    \A s \in Sessions :
        handler[s].pc = "closed" =>
            /\ ~Registered(s)
            /\ s \notin {clients[i] : i \in DOMAIN clients}

\* C24: cfg1 and cfg2 never are the same object, and the reply to a cfg2
\* request is a ConfigFrame2, the reply to a cfg1 request a ConfigFrame1.
C24_Cfg1IsACopy ==
    [][/\ cfg1' # cfg2'
       /\ \A s \in Sessions :
             Processed(s) /\ handler'[s].command \in {"cfg1", "cfg2"} =>
                conn'[s].out.frame.cls =
                   IF handler'[s].command = "cfg1" THEN "ConfigFrame1"
                   ELSE "ConfigFrame2"]_vars

\* C25: a streaming session dequeues, stamps, encodes and writes a frame
\* before it sleeps: when the worker enters the inter-frame sleep, the
\* frame it took from the queue is written and no longer in its hands.
C25_WriteBeforeSleep ==
    [][\A s \in Sessions :
          handler[s].pc # "sleep" /\ handler'[s].pc = "sleep" =>
             /\ conn'[s].out = [via |-> "queue",
                                frame |-> stamp(get(buffer[s]), s)]
             /\ handler'[s].data = NoFrame]_vars

WroteReply(s) == handler[s].pc = "reply" /\ handler'[s].pc \in {"poll", "sleep"}

\* C26: the frame a session writes, in reply to a request or from its
\* queue, carries the time that session stamped it with itself, however
\* the steps of the sessions interleave.
C26_OwnTimestamp ==
    [][\A s \in Sessions :
          /\ WroteReply(s) =>
                /\ conn'[s].out.via = "reply"
                /\ conn'[s].out.frame.cls # "None"
                /\ conn'[s].out.frame.time = s
          /\ Wrote(s) =>
                /\ conn'[s].out.via = "queue"
                /\ conn'[s].out.frame.time = s]_vars

\* C26 witness: one session has written its reply to a request while the
\* other had stamped its frame for the same request and not yet written it.
C26_Witness ==
    \E a, b \in Sessions :
        /\ a # b
        /\ conn[a].out.via = "reply"
        /\ handler[a].command = handler[b].command
        /\ handler[b].pc = "reply"
        /\ args[b][handler[b].command].time = b

\* The n-th measurement of the producer is in the queue of s.
Queued(s, n) ==
    \E i \in 1..Len(buffer[s]) :
        buffer[s][i].cls = "DataFrame" /\ buffer[s][i].seq = n

\* The latest write of s is the n-th measurement, under the identity the
\* server is configured with.
Delivered(s, n) ==
    /\ conn[s].out.via = "queue"
    /\ conn[s].out.frame.cls = "DataFrame"
    /\ conn[s].out.frame.seq = n
    /\ conn[s].out.frame.id_code = heap[cfg2].id_code

\* C27: a session that has processed "start" and stays open writes every
\* measurement the producer has put in its queue, and the frame carries
\* the identity the server is configured with.
C27_StreamingProgress ==
    \A s \in Sessions : \A n \in 1..MaxSends :
        (Streaming(s) /\ Queued(s, n)) ~> Delivered(s, n)

\* C27 witness: the server was given identity 780, and a streaming session
\* has written a measurement that carries it.
C27_Witness ==
    \E s \in Sessions : \E n \in 1..MaxSends :
        /\ Streaming(s)
        /\ Delivered(s, n)
        /\ conn[s].out.frame.id_code = 780

\* C28: when the read phase of a session ends and the bytes it holds start
\* with a complete command frame, that command is the one the loop goes on
\* with, whatever follows it in the same read.
C28_EveryCommandFrameIsInterpreted ==
    [][\A s \in Sessions :
          LET rd == handler[s].received_data
          IN  /\ ReadEnded(s)
              /\ Len(rd) >= 6
              /\ Take(rd, 6) \in CommandFrames
              => handler'[s].command = convert2frame(Take(rd, 6)).command]_vars

\* C29: set_configuration with a ConfigFrame3 makes that frame the
\* server's cfg3, and a session that holds a cfg3 answers a "cfg3" request
\* by writing it and stays open.
C29_Cfg3IsStoredAndServed ==
    [][/\ \A config \in ConfigInputs :
             TypeOf(config) = "ConfigFrame3" /\ SetConfiguration(config) =>
                cfg3' = config
       /\ \A s \in Sessions :
             /\ ReadEnded(s)
             /\ received_command(handler[s].received_data) = "cfg3"
             /\ args[s].cfg3 # "None"
             => /\ handler'[s].pc # "closed"
                /\ conn'[s].out.via = "reply"
                /\ conn'[s].out.frame.cls = "ConfigFrame3"]_vars

\* C30: after set_id(x) the header frame, the configuration frames and
\* the frame the call broadcasts all carry identity x, so that a session
\* accepted afterwards is started with frames of one identity.
C30_OneIdentity ==
    [][\A x \in Ids :
          SetId(x) =>
             /\ heap'[cfg1'].id_code = x
             /\ heap'[cfg2'].id_code = x
             /\ header'.id_code = x
             /\ \A s \in Sessions :
                   Registered(s) => Last(buffer'[s]).id_code = x]_vars

\* The thread k of name n runs: it is starting or running its server.
Alive(n, k) == simulator[n][k].pc \notin {"unborn", "ended"}

\* C31: a name registered in pmu_threads under a thread that has ended is
\* eventually removed, and a running server whose thread is no longer the
\* one registered under its name is eventually stopped.
C31_RegistryIsTruthful ==
    \A n \in Names : \A k \in 1..MaxStarts :
        /\ (pmu_threads[n] = k /\ ~Alive(n, k)) ~> (pmu_threads[n] # k)
        /\ (pmu_threads[n] # k /\ simulator[n][k].pmu = "running")
              ~> (simulator[n][k].pmu = "stopped")

\* Every profile of the file overwrites the stored profile of its name
\* and keeps that profile's own pmu_id and port.
KeepsOwn(imported) ==
    /\ Keys(imported) # {}
    /\ \A n \in Keys(imported) :
          /\ n \in Keys(pmu_configs)
          /\ imported[n].pmu_id = pmu_configs[n].pmu_id
          /\ imported[n].port = pmu_configs[n].port

\* C32: an import whose validation reports an error changes no stored
\* profile; any other import stores every profile of the file and leaves
\* the rest alone; and a file whose profiles overwrite their namesakes and
\* keep their pmu_id and port is stored.
C32_ImportIsAtomicAndOverwrites ==
    [][\A imported \in ImportFiles :
          ImportConfig(imported) =>
             /\ errors(imported) # {} => pmu_configs' = pmu_configs
             /\ errors(imported) = {} =>
                   \A n \in Names :
                      pmu_configs'[n] = IF n \in Keys(imported) THEN imported[n]
                                        ELSE pmu_configs[n]
             /\ KeepsOwn(imported) =>
                   \A n \in Keys(imported) : pmu_configs'[n] = imported[n]]_vars

====
